---- MODULE Spec2Model ----
(***************************************************************************)
(* Model of src/license_server.py: a licence server with three admin       *)
(* endpoints (create, revoke, list) and one verify endpoint, all working   *)
(* on one SQL table `licenses (key, expires, hwid, revoked)`.              *)
(*                                                                         *)
(* Every SQL statement is one atomic step on the table.  A verify request  *)
(* is handled by a worker in three steps: it samples the time, SELECTs the *)
(* row, and then decides on the row it read (issuing the hwid UPDATE when  *)
(* the row it read had no hwid).  Workers run concurrently with each other *)
(* and with the admin requests.                                            *)
(***************************************************************************)
EXTENDS Integers, Sequences, FiniteSets, TLC

\* ------------------------------------------------------------------ bounds
MaxTime == 1        \* the clock runs over 0..MaxTime

Licenses == {"L1"}
Hwids == {"H1", "H2"}
Workers == {"w1", "w2"}
Callers == {"c1"}
Expiries == {0, 1}  \* the expires values an admin create is given

\* ------------------------------------------------------------- constants
None == "None"                  \* SQL NULL / Python None
LICENSE_SECRET == "secret"
ADMIN_KEY == "admin-key"
HeaderKeys == {ADMIN_KEY, "wrong-key", None}

\* The rate governor of the specification (section 4.2); the source has none.
RateLimit == 30
RateWindow == 60

VARIABLES
    store,      \* the licenses table: a function from the keys present to rows
    clock,      \* time.time(), in seconds
    pc,         \* per worker: "idle", "select", "decide", "done", "error"
    req,        \* per worker: <<>> or <<[license, hwid, now, seq]>>
    row,        \* per worker: the result of cur.fetchone(): <<>> or <<row>>
    resp,       \* per worker: <<>> or <<the JSON body returned>>
    adminResp,  \* the last admin response: <<>> or <<[op, license, status]>>
    calls       \* per caller: the verify calls counted in its current window

vars == <<store, clock, pc, req, row, resp, adminResp, calls>>


\* ------------------------------------------------------------- signature

\* Python's f"{valid}" of a bool.
PyBoolStr(valid) == IF valid THEN "True" ELSE "False"

\* sha256 is modelled as an injective function of the bytes it is given.
sha256(msg, secret) == [digest_of |-> msg, key |-> secret]

sign(valid, expires) ==
    sha256([valid |-> PyBoolStr(valid), sep |-> "|", expires |-> expires],
           LICENSE_SECRET)

\* ------------------------------------------------------------- the table

NewRow(expires) == [expires |-> expires, hwid |-> None, revoked |-> FALSE]

\* Mutant: the conflict branch updates expires only.
UpsertKeepsRevoked(s, l, expires) ==
    IF l \in DOMAIN s
    THEN [s EXCEPT ![l] = [@ EXCEPT !.expires = expires]]
    ELSE [k \in DOMAIN s \cup {l} |-> IF k = l THEN NewRow(expires) ELSE s[k]]

\* Mutant: the conflict branch also sets hwid = NULL.
UpsertResetsHwid(s, l, expires) ==
    [k \in DOMAIN s \cup {l} |-> IF k = l THEN NewRow(expires) ELSE s[k]]

\* INSERT ... ON CONFLICT (key) DO UPDATE SET expires = ..., revoked = FALSE
Upsert(s, l, expires) ==
    IF l \in DOMAIN s
    THEN [s EXCEPT ![l] = [@ EXCEPT !.expires = expires, !.revoked = FALSE]]
    ELSE [k \in DOMAIN s \cup {l} |-> IF k = l THEN NewRow(expires) ELSE s[k]]

\* Mutant: revoking a key that has no row inserts a revoked row.
SetRevokedInserts(s, l) ==
    IF l \in DOMAIN s
    THEN [s EXCEPT ![l].revoked = TRUE]
    ELSE [k \in DOMAIN s \cup {l} |->
            IF k = l THEN [expires |-> 0, hwid |-> None, revoked |-> TRUE] ELSE s[k]]

\* UPDATE licenses SET revoked = TRUE WHERE key = l
SetRevoked(s, l) ==
    IF l \in DOMAIN s THEN [s EXCEPT ![l].revoked = TRUE] ELSE s

\* Mutant: the bind statement also rewrites expires.
SetHwidResetsExpiry(s, l, h) ==
    IF l \in DOMAIN s THEN [s EXCEPT ![l].hwid = h, ![l].expires = 0] ELSE s

\* UPDATE licenses SET hwid = h WHERE key = l
SetHwid(s, l, h) ==
    IF l \in DOMAIN s THEN [s EXCEPT ![l].hwid = h] ELSE s

\* SELECT expires, hwid, revoked FROM licenses WHERE key = l; cur.fetchone()
FetchOne(s, l) == IF l \in DOMAIN s THEN <<s[l]>> ELSE <<>>

\* SELECT key, expires, hwid, revoked FROM licenses; cur.fetchall()
FetchAll(s) ==
    {[license |-> k, expires |-> s[k].expires, hwid |-> s[k].hwid,
      revoked |-> s[k].revoked] : k \in DOMAIN s}

\* ---------------------------------------------------------- verification

\* Mutant: the revoked flag is not looked at.
IsRevokedIgnored(r) == FALSE

\* line 172: `if revoked:`
IsRevoked(r) == r.revoked

\* Mutant: the expiry comparison is `<=`.
IsExpiredInclusive(r, now) == r.expires <= now

\* line 180: `if expires < now:`
IsExpired(r, now) == r.expires < now

\* line 188: `if hwid is None:`
IsUnbound(r) == r.hwid = None

\* line 198: `elif hwid != payload.hwid:`
HwidMismatch(r, h) == r.hwid # h

Body(valid, expires, signature) ==
    [valid |-> valid, expires |-> expires, signature |-> signature]

\* Mutant: the not-found body is signed as a positive verdict.
NotFoundBodySignedValid == Body(FALSE, 0, sign(TRUE, 0))

\* lines 162-167: the return of "License not found"
NotFoundBody == Body(FALSE, 0, sign(FALSE, 0))

\* lines 172-177: the return of "Revoked"
RevokedBody(r) == Body(FALSE, r.expires, sign(FALSE, r.expires))

\* lines 180-185: the return of "Expired"
ExpiredBody(r) == Body(FALSE, r.expires, sign(FALSE, r.expires))

\* Mutant: the mismatch body is signed over a fixed expires of 0.
MismatchBodySignsZero(r) == Body(FALSE, r.expires, sign(FALSE, 0))

\* lines 198-203: the return of "HWID mismatch"
MismatchBody(r) == Body(FALSE, r.expires, sign(FALSE, r.expires))

\* lines 206-210: the return of "VALID"
ValidBody(r) == Body(TRUE, r.expires, sign(TRUE, r.expires))

\* The body verify_license returns for the fetched row `fetched` (<<>> or <<row>>).
VerifyResult(fetched, h, now) ==
    IF fetched = <<>>
    THEN NotFoundBody
    ELSE LET r == fetched[1] IN
         IF IsRevoked(r) THEN RevokedBody(r)
         ELSE IF IsExpired(r, now) THEN ExpiredBody(r)
         ELSE IF IsUnbound(r) THEN ValidBody(r)
         ELSE IF HwidMismatch(r, h) THEN MismatchBody(r)
         ELSE ValidBody(r)

\* Whether verify_license reaches the "First HWID bind" UPDATE (lines 188-195).
ReachesBind(fetched, now) ==
    /\ fetched # <<>>
    /\ ~IsRevoked(fetched[1])
    /\ ~IsExpired(fetched[1], now)
    /\ IsUnbound(fetched[1])

\* Mutant: the hwid UPDATE is issued for every live row, bound or not.
StoreAfterVerifyAlwaysBinds(s, fetched, l, h, now) ==
    IF fetched # <<>> /\ ~IsRevoked(fetched[1]) /\ ~IsExpired(fetched[1], now)
    THEN SetHwid(s, l, h)
    ELSE s

\* Mutant: the hwid UPDATE is issued before the revoked and expiry checks.
StoreAfterVerifyBindsFirst(s, fetched, l, h, now) ==
    IF fetched # <<>> /\ IsUnbound(fetched[1]) THEN SetHwid(s, l, h) ELSE s

\* The table after verify_license has decided on the row it fetched.
StoreAfterVerify(s, fetched, l, h, now) ==
    IF ReachesBind(fetched, now) THEN SetHwid(s, l, h) ELSE s

\* The observer of the specification's fixed window (section 4.2): how many
\* verify calls of a caller fall into its current window.
Observe(counter, now) ==
    IF counter.count = 0 \/ now > counter.windowEnd
    THEN [count |-> 1, windowEnd |-> now + RateWindow]
    ELSE [count |-> counter.count + 1, windowEnd |-> counter.windowEnd]

\* ----------------------------------------------------------------- state

NoCounter == [count |-> 0, windowEnd |-> 0]

Init ==
    /\ store = <<>>
    /\ clock = 0
    /\ pc = [p \in Workers |-> "idle"]
    /\ req = [p \in Workers |-> <<>>]
    /\ row = [p \in Workers |-> <<>>]
    /\ resp = [p \in Workers |-> <<>>]
    /\ adminResp = <<>>
    /\ calls = [c \in Callers |-> NoCounter]

Idle(p) == pc[p] \in {"idle", "done", "error"}

\* ------------------------------------------------------- admin endpoints

\* Mutant: every key is accepted.
admin_authAcceptsAll(key) == TRUE

\* admin_auth passes (does not raise 401)
admin_auth(key) == key = ADMIN_KEY

AdminBody(op, l, status) == <<[op |-> op, license |-> l, status |-> status]>>

create_license(key, l, expires) ==
    /\ IF admin_auth(key)
       THEN /\ store' = Upsert(store, l, expires)
            /\ adminResp' = AdminBody("create", l, "created")
       ELSE /\ store' = store
            /\ adminResp' = AdminBody("create", l, "Unauthorized")
    /\ UNCHANGED <<clock, pc, req, row, resp, calls>>

revoke_license(key, l) ==
    /\ IF admin_auth(key)
       THEN /\ store' = SetRevoked(store, l)
            /\ adminResp' = AdminBody("revoke", l, "revoked")
       ELSE /\ store' = store
            /\ adminResp' = AdminBody("revoke", l, "Unauthorized")
    /\ UNCHANGED <<clock, pc, req, row, resp, calls>>

\* The rows list_licenses returns from the table s (lines 135-143).
ListBody(s) == FetchAll(s)

\* An authorized call returns ListBody(store); the table is only read.
list_licenses(key) ==
    /\ adminResp' = AdminBody("list", None,
                              IF admin_auth(key) THEN "listed" ELSE "Unauthorized")
    /\ UNCHANGED <<store, clock, pc, req, row, resp, calls>>

\* A hwid-reset request: the application registers no such route (the admin
\* routes are create, revoke and licenses), so the request is answered
\* 404 Not Found and nothing is read or written.
reset_hwid(key, l) ==
    /\ adminResp' = AdminBody("reset_hwid", l, "Not Found")
    /\ UNCHANGED <<store, clock, pc, req, row, resp, calls>>

\* ------------------------------------------------------- verify endpoint

\* line 151: the handler starts and samples the time.
BeginRequest(p, l, h, nth) ==
    /\ Idle(p)
    /\ pc' = [pc EXCEPT ![p] = "select"]
    /\ req' = [req EXCEPT ![p] = <<[license |-> l, hwid |-> h, now |-> clock, nth |-> nth]>>]
    /\ row' = [row EXCEPT ![p] = <<>>]
    /\ resp' = [resp EXCEPT ![p] = <<>>]
    /\ UNCHANGED <<store, clock, adminResp>>

VerifyBegin(p, l, h) ==
    /\ BeginRequest(p, l, h, 0)
    /\ UNCHANGED calls

\* The same start, with the caller's calls counted by the observer.
VerifyBeginFrom(p, c, l, h) ==
    /\ calls[c].count <= RateLimit
    /\ BeginRequest(p, l, h, Observe(calls[c], clock).count)
    /\ calls' = [calls EXCEPT ![c] = Observe(calls[c], clock)]

\* lines 153-159: the SELECT.
VerifyRead(p) ==
    /\ pc[p] = "select"
    /\ row' = [row EXCEPT ![p] = FetchOne(store, req[p][1].license)]
    /\ pc' = [pc EXCEPT ![p] = "decide"]
    /\ UNCHANGED <<store, clock, req, resp, adminResp, calls>>

\* lines 161-210: the decision on the fetched row, the hwid UPDATE, the return.
VerifyFinish(p) ==
    /\ pc[p] = "decide"
    /\ LET q == req[p][1] IN
        /\ store' = StoreAfterVerify(store, row[p], q.license, q.hwid, q.now)
        /\ resp' = [resp EXCEPT ![p] = <<VerifyResult(row[p], q.hwid, q.now)>>]
    /\ pc' = [pc EXCEPT ![p] = "done"]
    /\ UNCHANGED <<clock, req, row, adminResp, calls>>

\* Mutant: a failed store access is answered as "license not found".
StoreErrorAsInvalid == <<NotFoundBody>>

\* What verify_license returns when db() raises (psycopg2.connect cannot reach
\* the database, lines 33-34): the exception is caught nowhere in the handler,
\* so no body is returned (the framework answers 500).
UnhandledStoreError == <<>>

\* lines 153-159 with the database unreachable: `with db() as conn` raises.
VerifyReadFails(p) ==
    /\ pc[p] = "select"
    /\ pc' = [pc EXCEPT ![p] = "error"]
    /\ resp' = [resp EXCEPT ![p] = UnhandledStoreError]
    /\ UNCHANGED <<store, clock, req, row, adminResp, calls>>

\* lines 188-195 with the database unreachable: the row was fetched, the
\* handler reached the first hwid bind, and `with db() as conn` raises.
VerifyBindFails(p) ==
    /\ pc[p] = "decide"
    /\ ReachesBind(row[p], req[p][1].now)
    /\ pc' = [pc EXCEPT ![p] = "error"]
    /\ resp' = [resp EXCEPT ![p] = UnhandledStoreError]
    /\ UNCHANGED <<store, clock, req, row, adminResp, calls>>

\* time.time() advances.
Tick ==
    /\ clock < MaxTime
    /\ clock' = clock + 1
    /\ UNCHANGED <<store, pc, req, row, resp, adminResp, calls>>

Admin ==
    \E key \in HeaderKeys, l \in Licenses :
        \/ \E e \in Expiries : create_license(key, l, e)
        \/ revoke_license(key, l)
        \/ list_licenses(key)
        \/ reset_hwid(key, l)

Next ==
    \/ \E p \in Workers, l \in Licenses, h \in Hwids : VerifyBegin(p, l, h)
    \/ \E p \in Workers : VerifyRead(p)
    \/ \E p \in Workers : VerifyFinish(p)
    \/ Admin
    \/ Tick

Spec == Init /\ [][Next]_vars

\* Sequential runs: a request starts only when no verify request is in flight.
Quiet == \A p \in Workers : Idle(p)

SeqNext ==
    \/ Quiet /\ \E p \in Workers, l \in Licenses, h \in Hwids : VerifyBegin(p, l, h)
    \/ \E p \in Workers : VerifyRead(p)
    \/ \E p \in Workers : VerifyFinish(p)
    \/ Quiet /\ Admin
    \/ Tick

SeqSpec == Init /\ [][SeqNext]_vars

\* A burst of verify requests, each counted against its caller's window.
RateNext ==
    \/ \E p \in Workers, c \in Callers, l \in Licenses, h \in Hwids :
            VerifyBeginFrom(p, c, l, h)
    \/ \E p \in Workers : VerifyRead(p)
    \/ \E p \in Workers : VerifyFinish(p)
    \/ Tick

RateSpec == Init /\ [][RateNext]_vars

\* Runs in which the database may be unreachable when a verify request
\* connects to it; the admin requests are the authorized create and revoke.
FailNext ==
    \/ \E p \in Workers, l \in Licenses, h \in Hwids : VerifyBegin(p, l, h)
    \/ \E p \in Workers : VerifyRead(p)
    \/ \E p \in Workers : VerifyReadFails(p)
    \/ \E p \in Workers : VerifyFinish(p)
    \/ \E p \in Workers : VerifyBindFails(p)
    \/ \E l \in Licenses, e \in Expiries : create_license(ADMIN_KEY, l, e)
    \/ \E l \in Licenses : revoke_license(ADMIN_KEY, l)
    \/ Tick

FailSpec == Init /\ [][FailNext]_vars

\* ================================================================ claims

Done(p) == pc[p] = "done"
Lic(p) == req[p][1].license
Hw(p) == req[p][1].hwid
Now(p) == req[p][1].now
Row(p) == row[p][1]
Resp(p) == resp[p][1]

\* Worker p completes its verify request in this step.
Finishes(p) == pc[p] = "decide" /\ pc'[p] = "done"

\* The row worker p fetched was a live (non-revoked, non-expired) one.
ReadLive(p) == row[p] # <<>> /\ ~Row(p).revoked /\ Row(p).expires >= Now(p)

\* Worker p's request was a first use: it fetched a live row with no hwid.
FirstUse(p) == ReadLive(p) /\ Row(p).hwid = None

\* ---------------------------------------------------------------- C1
C1_AtMostOneValid ==
    \A p, q \in Workers :
        (/\ p # q /\ Done(p) /\ Done(q)
         /\ Lic(p) = Lic(q) /\ Hw(p) # Hw(q)
         /\ FirstUse(p) /\ FirstUse(q))
        => ~(Resp(p).valid /\ Resp(q).valid)

C1_NoSecondWrite ==
    \A p \in Workers :
        (Finishes(p) /\ FirstUse(p) /\ Lic(p) \in DOMAIN store
         /\ store[Lic(p)].hwid \notin {None, Hw(p)})
        => store' = store

\* C1: of two concurrent first-use verify requests with different hwids on the
\* same unbound live license, at most one returns valid:true, and the one that
\* comes second does not write the record again.
C1_ConcurrentFirstUse == [](C1_AtMostOneValid) /\ [][C1_NoSecondWrite]_vars

\* ---------------------------------------------------------------- C2
\* C2: in a sequential run, a verify on a live license with no hwid returns
\* valid and stores the presented hwid; on a license bound to the presented
\* hwid it returns valid; on a license bound to another hwid it returns
\* invalid and the stored hwid stays what it was.
C2_SequentialBinding ==
    [][\A p \in Workers :
        (/\ Finishes(p)
         /\ Lic(p) \in DOMAIN store
         /\ ~store[Lic(p)].revoked
         /\ store[Lic(p)].expires >= Now(p))
        => LET cur == store[Lic(p)]
               out == resp'[p][1]
           IN  /\ cur.hwid = None => out.valid /\ store'[Lic(p)].hwid = Hw(p)
               /\ cur.hwid = Hw(p) => out.valid /\ store' = store
               /\ cur.hwid \notin {None, Hw(p)} => ~out.valid /\ store' = store
      ]_vars

\* A verify with another hwid was rejected and the license is still bound to
\* the hwid of its first use.
C2_Witness ==
    \E p \in Workers :
        /\ Done(p) /\ ReadLive(p) /\ ~Resp(p).valid
        /\ Row(p).hwid \notin {None, Hw(p)}
        /\ Lic(p) \in DOMAIN store
        /\ store[Lic(p)] = Row(p)

\* ---------------------------------------------------------------- C3
\* C3: a stored non-null hwid is never replaced by a different non-null value;
\* it changes only to absent, and only by an admin hwid reset.
C3_BoundHwidNeverOverwritten ==
    [][\A l \in DOMAIN store :
        store[l].hwid # None
        => /\ l \in DOMAIN store'
           /\ \/ store'[l].hwid = store[l].hwid
              \/ /\ store'[l].hwid = None
                 /\ adminResp' # <<>>
                 /\ adminResp'[1].op = "reset_hwid"
      ]_vars

\* ---------------------------------------------------------------- C4
\* C4: after an authorized admin create the record has hwid absent, revoked
\* false and the given expires, whatever was stored before.
C4_CreateResetsRecord ==
    [][\A l \in Licenses, e \in Expiries :
        create_license(ADMIN_KEY, l, e) => store'[l] = NewRow(e)
      ]_vars

\* ---------------------------------------------------------------- C5
\* C5: a verify that read a row with revoked = true returns valid:false,
\* whatever the presented hwid, the stored hwid and the stored expires are.
C5_RevokedIsInvalid ==
    \A p \in Workers :
        (Done(p) /\ row[p] # <<>> /\ Row(p).revoked) => ~Resp(p).valid

\* A revoked license that is not expired and is bound to the presented hwid
\* was verified.
C5_Witness ==
    \E p \in Workers :
        /\ Done(p) /\ row[p] # <<>> /\ Row(p).revoked
        /\ Row(p).hwid = Hw(p) /\ Row(p).expires >= Now(p)
        /\ ~Resp(p).valid

\* ---------------------------------------------------------------- C6
\* C6: for a non-revoked license whose hwid is absent or the presented one,
\* verify returns valid exactly when expires >= now: valid at expires = now,
\* invalid at expires = now - 1.
C6_ExpiryBoundary ==
    \A p \in Workers :
        (Done(p) /\ row[p] # <<>> /\ ~Row(p).revoked
         /\ Row(p).hwid \in {None, Hw(p)})
        => /\ Row(p).expires = Now(p) => Resp(p).valid
           /\ Row(p).expires > Now(p) => Resp(p).valid
           /\ Row(p).expires = Now(p) - 1 => ~Resp(p).valid
           /\ Row(p).expires < Now(p) => ~Resp(p).valid

\* One verify ran at expires = now and was valid, another at expires = now - 1
\* and was invalid.
C6_Witness ==
    \E p, q \in Workers :
        /\ Done(p) /\ row[p] # <<>> /\ ~Row(p).revoked
        /\ Row(p).hwid \in {None, Hw(p)}
        /\ Row(p).expires = Now(p) /\ Resp(p).valid
        /\ Done(q) /\ row[q] # <<>> /\ ~Row(q).revoked
        /\ Row(q).hwid \in {None, Hw(q)}
        /\ Row(q).expires = Now(q) - 1 /\ ~Resp(q).valid

\* ---------------------------------------------------------------- C7
\* C7: a verify of a license with no record returns {valid:false, expires:0}
\* signed as Sign(false, 0), and no step of a verify request adds a record.
C7_NotFoundVerdict ==
    [][/\ \A p \in Workers :
            (Finishes(p) /\ row[p] = <<>>)
            => /\ resp'[p] # <<>>
               /\ resp'[p][1].valid = FALSE
               /\ resp'[p][1].expires = 0
               /\ resp'[p][1].signature = sign(FALSE, 0)
               /\ store' = store
       /\ pc' # pc => DOMAIN store' = DOMAIN store
      ]_vars

\* A license with no record was verified and still has no record.
C7_Witness ==
    \E p \in Workers :
        /\ Done(p) /\ row[p] = <<>>
        /\ Lic(p) \notin DOMAIN store
        /\ ~Resp(p).valid /\ Resp(p).expires = 0

\* ---------------------------------------------------------------- C8
\* C8: every body verify returns carries the signature of exactly its own
\* valid and expires values, and expires is 0 for a license not found and the
\* stored expires otherwise.
C8_EveryVerdictSigned ==
    \A p \in Workers :
        Done(p)
        => /\ resp[p] # <<>>
           /\ Resp(p).signature = sign(Resp(p).valid, Resp(p).expires)
           /\ Resp(p).expires = IF row[p] = <<>> THEN 0 ELSE Row(p).expires

\* The scenario of the specification: one verify was valid, another with a
\* different hwid was rejected, both with the same non-zero expires.
C8_Witness ==
    \E p, q \in Workers :
        /\ Done(p) /\ Done(q) /\ ReadLive(p) /\ ReadLive(q)
        /\ Row(q).hwid = Hw(p) /\ Hw(q) # Hw(p)
        /\ Resp(p) = Body(TRUE, 1, sign(TRUE, 1))
        /\ Resp(q) = Body(FALSE, 1, sign(FALSE, 1))

\* ---------------------------------------------------------------- C9
\* C9: a verify call that is the 31st (or later) of its caller in one
\* 60-second window fails with RateLimited: it reads no row and gets no
\* verdict.
C9_ThirtyFirstCallRejected ==
    \A p \in Workers :
        (req[p] # <<>> /\ req[p][1].nth > RateLimit)
        => pc[p] = "select" /\ row[p] = <<>> /\ resp[p] = <<>>

\* ---------------------------------------------------------------- C10
\* C10: after an authorized admin hwid reset on a bound license the stored
\* hwid is absent (so that the next verify with a new hwid can bind it).
C10_ResetClearsHwid ==
    [][\A l \in DOMAIN store :
        (store[l].hwid # None /\ reset_hwid(ADMIN_KEY, l))
        => l \in DOMAIN store' /\ store'[l].hwid = None
      ]_vars

\* ---------------------------------------------------------------- C11
\* C11: a verify request whose store access fails (on the row read or on the
\* hwid binding write) ends in an error with no verdict and no write; and a
\* first-use verify that does return valid:true has written its hwid.
C11_StoreFailureIsAnError ==
    [][\A p \in Workers :
        /\ (pc[p] \in {"select", "decide"} /\ pc'[p] = "error")
           => resp'[p] = <<>> /\ store' = store
        /\ (Finishes(p) /\ FirstUse(p) /\ Lic(p) \in DOMAIN store
            /\ resp'[p][1].valid)
           => store'[Lic(p)].hwid = Hw(p)
      ]_vars

\* One verify failed on the read of an existing license, another on the
\* binding write of a first use; neither has a verdict and the license is
\* still unbound.
C11_Witness ==
    \E p, q \in Workers :
        /\ pc[p] = "error" /\ row[p] = <<>> /\ resp[p] = <<>>
        /\ Lic(p) \in DOMAIN store
        /\ pc[q] = "error" /\ FirstUse(q) /\ resp[q] = <<>>
        /\ store[Lic(q)].hwid = None

\* ---------------------------------------------------------------- C12
\* C12: create, revoke and list called with a key other than the admin key
\* fail with Unauthorized and leave every license record unchanged, whether
\* or not the target license exists.
C12_UnauthorizedShortCircuits ==
    [][\A key \in HeaderKeys \ {ADMIN_KEY}, l \in Licenses :
        /\ \A e \in Expiries :
              create_license(key, l, e)
              => store' = store /\ adminResp' = AdminBody("create", l, "Unauthorized")
        /\ revoke_license(key, l)
           => store' = store /\ adminResp' = AdminBody("revoke", l, "Unauthorized")
        /\ list_licenses(key)
           => store' = store /\ adminResp'[1].status = "Unauthorized"
      ]_vars

\* A revoke with a wrong key was refused and its target, an existing license,
\* is still not revoked.
C12_Witness ==
    /\ adminResp # <<>>
    /\ adminResp[1].op = "revoke"
    /\ adminResp[1].status = "Unauthorized"
    /\ adminResp[1].license \in DOMAIN store
    /\ ~store[adminResp[1].license].revoked

\* ---------------------------------------------------------------- C13
\* C13: an authorized revoke of a license with no record returns
\* {status: revoked} and creates no record; on an already revoked license it
\* changes nothing and revoked stays true.
C13_RevokeIdempotent ==
    [][\A l \in Licenses :
        revoke_license(ADMIN_KEY, l)
        => /\ adminResp' = AdminBody("revoke", l, "revoked")
           /\ l \notin DOMAIN store => store' = store
           /\ (l \in DOMAIN store /\ store[l].revoked)
              => store' = store /\ store'[l].revoked
      ]_vars

\* A license with no record was revoked: the confirmation was returned and
\* there is still no record.
C13_Witness ==
    /\ adminResp # <<>>
    /\ adminResp[1].op = "revoke"
    /\ adminResp[1].status = "revoked"
    /\ adminResp[1].license \notin DOMAIN store

\* ---------------------------------------------------------------- C14
\* C14: the revoked flag and the expires of a record change only in a step of
\* an authorized admin create or revoke of that license; no step of a verify
\* request changes them, and no step removes a record.
C14_VerifyKeepsRevokedAndExpires ==
    [][\A l \in DOMAIN store :
        /\ l \in DOMAIN store'
        /\ (store'[l].revoked # store[l].revoked
            \/ store'[l].expires # store[l].expires)
           => /\ pc' = pc
              /\ adminResp' \in {AdminBody("create", l, "created"),
                                 AdminBody("revoke", l, "revoked")}
      ]_vars

\* A first-use verify wrote its hwid; expires and revoked of the record are
\* what it read.
C14_Witness ==
    \E p \in Workers :
        /\ Done(p) /\ FirstUse(p) /\ Resp(p).valid
        /\ Lic(p) \in DOMAIN store
        /\ store[Lic(p)] = [expires |-> 1, hwid |-> Hw(p), revoked |-> FALSE]
        /\ Row(p).expires = 1

\* ---------------------------------------------------------------- C15
\* C15: a revoked record stays revoked in every step but an authorized create
\* of that license; a verify that reads while the record is revoked reads it
\* revoked and returns valid:false; after an authorized create the record has
\* revoked = false.
C15_RevokedUntilRecreated ==
    [][/\ \A l \in DOMAIN store :
            store[l].revoked
            => /\ l \in DOMAIN store'
               /\ store'[l].revoked \/ adminResp' = AdminBody("create", l, "created")
       /\ \A p \in Workers :
            /\ (pc[p] = "select" /\ pc'[p] = "decide"
                /\ Lic(p) \in DOMAIN store /\ store[Lic(p)].revoked)
               => row'[p] # <<>> /\ row'[p][1].revoked
            /\ (Finishes(p) /\ row[p] # <<>> /\ Row(p).revoked)
               => ~resp'[p][1].valid
       /\ \A l \in Licenses :
            \* an admin step (no worker moves, no tick) answered "created" for l
            (pc' = pc /\ clock' = clock
             /\ adminResp' = AdminBody("create", l, "created"))
            => l \in DOMAIN store' /\ ~store'[l].revoked
      ]_vars

\* A verify of a revoked license was rejected, and the license has since been
\* created again and is not revoked.
C15_Witness ==
    \E p \in Workers :
        /\ Done(p) /\ row[p] # <<>> /\ Row(p).revoked /\ ~Resp(p).valid
        /\ Row(p).hwid = Hw(p) /\ Row(p).expires >= Now(p)
        /\ adminResp = AdminBody("create", Lic(p), "created")
        /\ ~store[Lic(p)].revoked

\* ---------------------------------------------------------------- C16
\* C16: a verify request that returns valid:false writes nothing: the table
\* is the same after its last step as before it.
C16_InvalidVerdictWritesNothing ==
    [][\A p \in Workers :
        (Finishes(p) /\ ~resp'[p][1].valid) => store' = store
      ]_vars

\* A verify of an expired license with no hwid was rejected and the license
\* still has no hwid.
C16_Witness ==
    \E p \in Workers :
        /\ Done(p) /\ row[p] # <<>> /\ ~Row(p).revoked
        /\ Row(p).hwid = None /\ Row(p).expires < Now(p)
        /\ ~Resp(p).valid
        /\ Lic(p) \in DOMAIN store
        /\ store[Lic(p)].hwid = None

\* ---------------------------------------------------------------- C17
\* C17: a verify whose license record is revoked at the moment of its last
\* step (the binding write) does not change the hwid of that record and does
\* not return valid:true.
C17_NoBindOnRevokedRecord ==
    [][\A p \in Workers :
        (Finishes(p) /\ Lic(p) \in DOMAIN store /\ store[Lic(p)].revoked)
        => /\ store'[Lic(p)].hwid = store[Lic(p)].hwid
           /\ ~resp'[p][1].valid
      ]_vars

\* ---------------------------------------------------------------- C18
\* C18: a stored non-null hwid never becomes null again, in any step of any
\* request the application serves.
C18_BoundNeverUnbound ==
    [][\A l \in DOMAIN store :
        store[l].hwid # None
        => l \in DOMAIN store' /\ store'[l].hwid # None
      ]_vars

\* A license that a verify read as already bound was created again afterwards
\* (its expires changed) and is still bound to the same hwid.
C18_Witness ==
    \E p \in Workers :
        /\ Done(p) /\ ReadLive(p) /\ Resp(p).valid
        /\ Row(p).hwid = Hw(p)
        /\ adminResp = AdminBody("create", Lic(p), "created")
        /\ store[Lic(p)].expires # Row(p).expires
        /\ store[Lic(p)].hwid = Hw(p)

====
